---------------------------- MODULE Spec2Model ----------------------------
(***************************************************************************)
(* A model of the METAR reader of src/app.py: the METARDecoder class (the  *)
(* field decoders and decode_metar), fetch_metar and the /metar request    *)
(* handler.                                                                *)
(*                                                                         *)
(* A Python str that the code inspects character by character is a         *)
(* sequence of one-character strings (<<"1","0","S","M">> is '10SM'); a    *)
(* text the code only builds and hands on is a TLA+ string.                *)
(***************************************************************************)
EXTENDS Integers, Sequences, FiniteSets, TLC

(***************************************************************************)
(* Python's built-in string and number operations, as the code uses them.  *)
(***************************************************************************)

\* The characters str.split() and str.strip() treat as whitespace (of the
\* ones the inputs below use).
IsSpace(c) == c \in {" ", "\t", "\n"}

Digits == <<"0", "1", "2", "3", "4", "5", "6", "7", "8", "9">>

\* \d of the re module, on the ASCII inputs used here.
IsDigit(c) == \E i \in 1..10 : Digits[i] = c

DigitVal(c) == (CHOOSE i \in 1..10 : Digits[i] = c) - 1

\* The text of a character sequence.
RECURSIVE Str(_)
Str(cs) == IF cs = <<>> THEN "" ELSE Head(cs) \o Str(Tail(cs))

\* s[a:b] of Python for 0 <= a <= b (0-based, b exclusive, clipped to len).
Slice(s, a, b) ==
    LET hi == IF b > Len(s) THEN Len(s) ELSE b
    IN  IF a >= hi THEN <<>> ELSE SubSeq(s, a + 1, hi)

\* s.startswith(p)
StartsWith(s, p) == Len(p) <= Len(s) /\ SubSeq(s, 1, Len(p)) = p

\* s.endswith(p)
EndsWith(s, p) ==
    Len(p) <= Len(s) /\ SubSeq(s, Len(s) - Len(p) + 1, Len(s)) = p

\* p in s
Contains(s, p) ==
    \E i \in 1..(Len(s) - Len(p) + 1) : SubSeq(s, i, i + Len(p) - 1) = p

\* s.replace(old, new): every non-overlapping occurrence, left to right.
RECURSIVE Replace(_, _, _)
Replace(s, old, new) ==
    IF s = <<>> THEN <<>>
    ELSE IF StartsWith(s, old)
         THEN new \o Replace(SubSeq(s, Len(old) + 1, Len(s)), old, new)
         ELSE <<Head(s)>> \o Replace(Tail(s), old, new)

\* s.split(sep) for a one-character sep: the pieces between the separators.
RECURSIVE SplitOn(_, _)
SplitOn(s, sep) ==
    IF \A i \in 1..Len(s) : s[i] # sep THEN <<s>>
    ELSE LET k == CHOOSE i \in 1..Len(s) :
                      s[i] = sep /\ \A j \in 1..(i - 1) : s[j] # sep
         IN  <<SubSeq(s, 1, k - 1)>> \o SplitOn(SubSeq(s, k + 1, Len(s)), sep)

\* s.split(): scan left to right, cur is the token being collected.
RECURSIVE SplitScan(_, _)
SplitScan(s, cur) ==
    IF s = <<>> THEN (IF cur = <<>> THEN <<>> ELSE <<cur>>)
    ELSE IF IsSpace(Head(s))
         THEN (IF cur = <<>> THEN <<>> ELSE <<cur>>) \o SplitScan(Tail(s), <<>>)
         ELSE SplitScan(Tail(s), Append(cur, Head(s)))

Split(s) == SplitScan(s, <<>>)

\* s.strip()
RECURSIVE LStrip(_)
LStrip(s) == IF s # <<>> /\ IsSpace(Head(s)) THEN LStrip(Tail(s)) ELSE s

RECURSIVE RStrip(_)
RStrip(s) ==
    IF s # <<>> /\ IsSpace(s[Len(s)]) THEN RStrip(SubSeq(s, 1, Len(s) - 1)) ELSE s

Strip(s) == LStrip(RStrip(s))

LowerCase ==
    <<"a", "b", "c", "d", "e", "f", "g", "h", "i", "j", "k", "l", "m",
      "n", "o", "p", "q", "r", "s", "t", "u", "v", "w", "x", "y", "z">>

UpperCase ==
    <<"A", "B", "C", "D", "E", "F", "G", "H", "I", "J", "K", "L", "M",
      "N", "O", "P", "Q", "R", "S", "T", "U", "V", "W", "X", "Y", "Z">>

\* s.upper() and s.lower(), on the ASCII inputs used here.
Upper(s) ==
    [i \in 1..Len(s) |->
        IF \E k \in 1..26 : LowerCase[k] = s[i]
        THEN UpperCase[CHOOSE k \in 1..26 : LowerCase[k] = s[i]] ELSE s[i]]

Lower(s) ==
    [i \in 1..Len(s) |->
        IF \E k \in 1..26 : UpperCase[k] = s[i]
        THEN LowerCase[CHOOSE k \in 1..26 : UpperCase[k] = s[i]] ELSE s[i]]

\* ', '.join(items) of a list of texts.
RECURSIVE Join(_)
Join(items) ==
    IF items = <<>> THEN ""
    ELSE IF Len(items) = 1 THEN items[1]
    ELSE items[1] \o ", " \o Join(Tail(items))

\* The value of a sequence of digits and underscores (underscores skipped).
RECURSIVE DigitsVal(_, _)
DigitsVal(cs, acc) ==
    IF cs = <<>> THEN acc
    ELSE IF Head(cs) = "_" THEN DigitsVal(Tail(cs), acc)
    ELSE DigitsVal(Tail(cs), 10 * acc + DigitVal(Head(cs)))

\* int(s): an optional sign, then digits, single underscores allowed between
\* digits; anything else raises ValueError (ok = FALSE).
IntParse(cs) ==
    LET signed == cs # <<>> /\ cs[1] \in {"+", "-"}
        body   == IF signed THEN Tail(cs) ELSE cs
        ok     == /\ body # <<>>
                  /\ \A i \in 1..Len(body) : IsDigit(body[i]) \/ body[i] = "_"
                  /\ IsDigit(body[1]) /\ IsDigit(body[Len(body)])
                  /\ \A i \in 1..(Len(body) - 1) :
                         ~(body[i] = "_" /\ body[i + 1] = "_")
        mag    == IF ok THEN DigitsVal(body, 0) ELSE 0
    IN  [ok |-> ok, val |-> IF signed /\ cs[1] = "-" THEN 0 - mag ELSE mag]

\* str(n) of a natural number, then of an integer (what an f-string prints).
RECURSIVE NatStr(_)
NatStr(n) == IF n < 10 THEN Digits[n + 1] ELSE NatStr(n \div 10) \o Digits[(n % 10) + 1]

IntStr(n) == IF n < 0 THEN "-" \o NatStr(0 - n) ELSE NatStr(n)

\* round(num / den) for den > 0: to the nearest integer, a tie to the even one.
RoundHalfEven(num, den) ==
    LET q == num \div den
        r == num % den
    IN  IF 2 * r < den THEN q
        ELSE IF 2 * r > den THEN q + 1
        ELSE IF q % 2 = 0 THEN q ELSE q + 1

\* k zeros, as text.
RECURSIVE Zeros(_)
Zeros(k) == IF k = 0 THEN "" ELSE "0" \o Zeros(k - 1)

\* float(w + '.' + f) for two 2-character strings w and f, and the text an
\* f-string prints for the result (repr of the float). w is two digits or a
\* sign and a digit; f is two digits, or e/E and the digit of an exponent.
\* Anything else raises ValueError (ok = FALSE).
FloatParseText(w, f) ==
    LET wSigned == w[1] \in {"+", "-"}
        wOk     == (IsDigit(w[1]) \/ wSigned) /\ IsDigit(w[2])
        fFrac   == IsDigit(f[1]) /\ IsDigit(f[2])
        fExp    == f[1] \in {"e", "E"} /\ IsDigit(f[2])
        whole   == IF wSigned THEN DigitVal(w[2])
                   ELSE 10 * DigitVal(w[1]) + DigitVal(w[2])
        sign    == IF w[1] = "-" THEN "-" ELSE ""
        frac    == IF f[2] = "0" THEN f[1] ELSE f[1] \o f[2]
    IN  IF wOk /\ fFrac
        THEN [ok |-> TRUE, text |-> sign \o NatStr(whole) \o "." \o frac]
        ELSE IF wOk /\ fExp
        THEN [ok |-> TRUE,
              text |-> sign \o NatStr(whole)
                           \o (IF whole = 0 THEN "" ELSE Zeros(DigitVal(f[2])))
                           \o ".0"]
        ELSE [ok |-> FALSE, text |-> ""]

(***************************************************************************)
(* METARDecoder: the field decoders.                                       *)
(***************************************************************************)

\* The absent value of Python.
None == "<None>"

\* self.wind_directions: abbreviation -> full name.
wind_directions ==
    [N |-> "north", NNE |-> "north-northeast", NE |-> "northeast",
     ENE |-> "east-northeast", E |-> "east", ESE |-> "east-southeast",
     SE |-> "southeast", SSE |-> "south-southeast", S |-> "south",
     SSW |-> "south-southwest", SW |-> "southwest", WSW |-> "west-southwest",
     W |-> "west", WNW |-> "west-northwest", NW |-> "northwest",
     NNW |-> "north-northwest"]

\* The 16-point compass rose, clockwise from north.
directions ==
    <<"N", "NNE", "NE", "ENE", "E", "ESE", "SE", "SSE",
      "S", "SSW", "SW", "WSW", "W", "WNW", "NW", "NNW">>

\* A slip of WindIndex: int() instead of round().
WindIndexTruncated(degrees) ==
    (IF degrees >= 0 THEN (2 * degrees) \div 45
     ELSE 0 - ((0 - 2 * degrees) \div 45)) % 16

\* round(degrees / 22.5) % 16; degrees / 22.5 is 2 * degrees / 45.
WindIndex(degrees) == RoundHalfEven(2 * degrees, 45) % 16

get_wind_direction_text(degrees) ==
    IF degrees = 0 \/ degrees = 360 THEN "north"
    ELSE wind_directions[directions[WindIndex(degrees) + 1]]

SM == <<"S", "M">>

\* decode_visibility: raised = TRUE is the ValueError of int(miles).
decode_visibility(vis_str) ==
    IF EndsWith(vis_str, SM)
    THEN LET miles == Replace(vis_str, SM, <<>>)
             n     == IntParse(miles)
         IN  IF miles = <<"1", "0">> THEN [raised |-> FALSE, text |-> "10+ miles visibility"]
             ELSE IF ~n.ok THEN [raised |-> TRUE, text |-> ""]
             ELSE IF n.val >= 10 THEN [raised |-> FALSE, text |-> "10+ miles visibility"]
             ELSE [raised |-> FALSE, text |-> Str(miles) \o " miles visibility"]
    ELSE [raised |-> FALSE, text |-> "visibility not reported"]

\* cloud_types, in the dict's insertion order.
cloud_types ==
    << [code |-> <<"C", "L", "R">>, description |-> "clear skies"],
       [code |-> <<"S", "K", "C">>, description |-> "sky clear"],
       [code |-> <<"F", "E", "W">>, description |-> "few clouds"],
       [code |-> <<"S", "C", "T">>, description |-> "scattered clouds"],
       [code |-> <<"B", "K", "N">>, description |-> "broken clouds"],
       [code |-> <<"O", "V", "C">>, description |-> "overcast"] >>

\* re.search(r'(\d{3})', s): the first three digits in a row, or <<>>.
SearchThreeDigits(s) ==
    LET hits == {i \in 1..(Len(s) - 2) :
                     IsDigit(s[i]) /\ IsDigit(s[i + 1]) /\ IsDigit(s[i + 2])}
    IN  IF hits = {} THEN <<>>
        ELSE LET k == CHOOSE i \in hits : \A j \in hits : i <= j
             IN  SubSeq(s, k, k + 2)

decode_clouds(cloud_str) ==
    LET hits == {i \in 1..Len(cloud_types) : StartsWith(cloud_str, cloud_types[i].code)}
    IN  IF hits = {} THEN "cloud conditions not reported"
        ELSE LET k        == CHOOSE i \in hits : \A j \in hits : i <= j
                 altitude == SearchThreeDigits(cloud_str)
             IN  IF k <= 2 THEN cloud_types[k].description
                 ELSE IF altitude # <<>>
                 THEN cloud_types[k].description \o " at "
                          \o IntStr(IntParse(altitude).val * 100) \o " feet"
                 ELSE cloud_types[k].description

\* phenomena, in the dict's insertion order.
phenomena ==
    << [code |-> <<"R", "A">>, desc |-> "rain"],
       [code |-> <<"S", "N">>, desc |-> "snow"],
       [code |-> <<"D", "Z">>, desc |-> "drizzle"],
       [code |-> <<"F", "G">>, desc |-> "fog"],
       [code |-> <<"B", "R">>, desc |-> "mist"],
       [code |-> <<"H", "Z">>, desc |-> "haze"],
       [code |-> <<"T", "S">>, desc |-> "thunderstorm"],
       [code |-> <<"S", "H">>, desc |-> "showers"] >>

\* The intensity modifier at the start of wx_str.
intensity_prefix(wx_str) ==
    IF StartsWith(wx_str, <<"-">>) THEN "light "
    ELSE IF StartsWith(wx_str, <<"+">>) THEN "heavy "
    ELSE IF StartsWith(wx_str, <<"V", "C">>) THEN "nearby "
    ELSE ""

\* A slip of WeatherLoop: a code counts only at the start of wx_str, after the
\* intensity modifier (startswith instead of in).
RECURSIVE WeatherLoopPrefixOnly(_, _)
WeatherLoopPrefixOnly(wx_str, i) ==
    LET body == IF StartsWith(wx_str, <<"-">>) \/ StartsWith(wx_str, <<"+">>)
                THEN Tail(wx_str)
                ELSE IF StartsWith(wx_str, <<"V", "C">>) THEN Tail(Tail(wx_str))
                ELSE wx_str
    IN  IF i > Len(phenomena) THEN <<>>
        ELSE (IF StartsWith(body, phenomena[i].code)
              THEN <<intensity_prefix(wx_str) \o phenomena[i].desc>>
              ELSE <<>>) \o WeatherLoopPrefixOnly(wx_str, i + 1)

\* The loop of decode_weather_phenomena from entry i on: the list `result`.
RECURSIVE WeatherLoop(_, _)
WeatherLoop(wx_str, i) ==
    IF i > Len(phenomena) THEN <<>>
    ELSE (IF Contains(wx_str, phenomena[i].code)
          THEN <<intensity_prefix(wx_str) \o phenomena[i].desc>>
          ELSE <<>>) \o WeatherLoop(wx_str, i + 1)

decode_weather_phenomena(wx_str) ==
    LET result == WeatherLoop(wx_str, 1)
    IN  IF result # <<>> THEN Join(result) ELSE None

\* A slip of celsius_to_fahrenheit: int() instead of round(), which cuts the
\* fraction off (towards zero).
celsius_to_fahrenheit_truncated(celsius) ==
    LET num == 9 * celsius + 160
    IN  IF num >= 0 THEN num \div 5 ELSE 0 - ((0 - num) \div 5)

\* round((celsius * 9/5) + 32): the sum is (9 * celsius + 160) / 5, whose
\* fractional part is a multiple of 0.2, so the float the code rounds is never
\* near a tie and rounds as the exact value does.
celsius_to_fahrenheit(celsius) == RoundHalfEven(9 * celsius + 160, 5)

(***************************************************************************)
(* METARDecoder.decode_metar.                                              *)
(***************************************************************************)

\* The dict `decoded` as decode_metar initialises it.
EmptyDecoded ==
    [station |-> <<>>, time |-> "", wind |-> "", visibility |-> "",
     weather |-> "", clouds |-> "", temperature |-> "", dewpoint |-> "",
     pressure |-> ""]

\* re.match(r'\d{6}Z', part): a match at the start of part.
MatchTime(part) ==
    /\ Len(part) >= 7
    /\ \A i \in 1..6 : IsDigit(part[i])
    /\ part[7] = "Z"

\* re.match(r'\d{3}\d{2}KT', part)
MatchWindFixed(part) ==
    /\ Len(part) >= 7
    /\ \A i \in 1..5 : IsDigit(part[i])
    /\ part[6] = "K" /\ part[7] = "T"

\* re.match(r'VRB\d{2}KT', part)
MatchWindVariable(part) ==
    /\ Len(part) >= 7
    /\ SubSeq(part, 1, 3) = <<"V", "R", "B">>
    /\ IsDigit(part[4]) /\ IsDigit(part[5])
    /\ part[6] = "K" /\ part[7] = "T"

\* M?\d{2} at position i of part: the position after it, or 0 for no match.
AfterTempGroup(part, i) ==
    LET j == IF i <= Len(part) /\ part[i] = "M" THEN i + 1 ELSE i
    IN  IF j + 1 <= Len(part) /\ IsDigit(part[j]) /\ IsDigit(part[j + 1])
        THEN j + 2 ELSE 0

\* re.match(r'M?\d{2}/M?\d{2}', part)
MatchTemperature(part) ==
    LET a == AfterTempGroup(part, 1)
    IN  /\ a # 0
        /\ a <= Len(part) /\ part[a] = "/"
        /\ AfterTempGroup(part, a + 1) # 0

\* any(wx in part for wx in ['RA', 'SN', 'DZ', 'FG', 'BR', 'HZ', 'TS', 'SH'])
AnyWeatherCode(part) ==
    \E wx \in {<<"R", "A">>, <<"S", "N">>, <<"D", "Z">>, <<"F", "G">>,
               <<"B", "R">>, <<"H", "Z">>, <<"T", "S">>, <<"S", "H">>} :
        Contains(part, wx)

\* any(part.startswith(cloud) for cloud in ['CLR', 'SKC', 'FEW', 'SCT', 'BKN', 'OVC'])
AnyCloudPrefix(part) ==
    \E cloud \in {<<"C", "L", "R">>, <<"S", "K", "C">>, <<"F", "E", "W">>,
                  <<"S", "C", "T">>, <<"B", "K", "N">>, <<"O", "V", "C">>} :
        StartsWith(part, cloud)

\* A slip of RuleOf: the weather test comes before the visibility test.
RuleOfWeatherFirst(part) ==
    IF MatchTime(part) THEN "time"
    ELSE IF MatchWindFixed(part) \/ MatchWindVariable(part) THEN "wind"
    ELSE IF AnyWeatherCode(part) THEN "weather"
    ELSE IF EndsWith(part, SM) THEN "visibility"
    ELSE IF AnyCloudPrefix(part) THEN "clouds"
    ELSE IF MatchTemperature(part) THEN "temperature"
    ELSE IF StartsWith(part, <<"A">>) /\ Len(part) = 5 THEN "pressure"
    ELSE "none"

\* The branch of the if/elif chain that part takes ("none": no branch).
RuleOf(part) ==
    IF MatchTime(part) THEN "time"
    ELSE IF MatchWindFixed(part) \/ MatchWindVariable(part) THEN "wind"
    ELSE IF EndsWith(part, SM) THEN "visibility"
    ELSE IF AnyWeatherCode(part) THEN "weather"
    ELSE IF AnyCloudPrefix(part) THEN "clouds"
    ELSE IF MatchTemperature(part) THEN "temperature"
    ELSE IF StartsWith(part, <<"A">>) /\ Len(part) = 5 THEN "pressure"
    ELSE "none"

\* The time branch.
TimeText(part) ==
    "Observed at " \o Str(Slice(part, 2, 4)) \o ":" \o Str(Slice(part, 4, 6))
        \o "Z on day " \o Str(Slice(part, 0, 2))

\* The wind branch.
WindText(part) ==
    IF StartsWith(part, <<"V", "R", "B">>)
    THEN "Variable wind at " \o Str(Slice(part, 3, 5)) \o " knots"
    ELSE "Wind from the "
             \o get_wind_direction_text(IntParse(Slice(part, 0, 3)).val)
             \o " at " \o IntStr(IntParse(Slice(part, 3, 5)).val) \o " knots"

\* The temperature/dewpoint branch: raised is the ValueError of either int().
TemperatureTexts(part) ==
    LET temps  == SplitOn(part, "/")
        temp_c == IntParse(Replace(temps[1], <<"M">>, <<"-">>))
        dew_c  == IntParse(Replace(temps[2], <<"M">>, <<"-">>))
    IN  IF ~temp_c.ok \/ ~dew_c.ok
        THEN [raised |-> TRUE, temperature |-> "", dewpoint |-> ""]
        ELSE [raised |-> FALSE,
              temperature |-> IntStr(celsius_to_fahrenheit(temp_c.val)) \o "°F ("
                                  \o IntStr(temp_c.val) \o "°C)",
              dewpoint |-> "Dewpoint " \o IntStr(celsius_to_fahrenheit(dew_c.val))
                               \o "°F (" \o IntStr(dew_c.val) \o "°C)"]

\* The pressure branch: raised is the ValueError of float().
PressureText(part) ==
    LET pressure_inhg == FloatParseText(Slice(part, 1, 3), Slice(part, 3, 5))
    IN  [raised |-> ~pressure_inhg.ok,
         text |-> "Pressure " \o pressure_inhg.text \o " inHg"]

\* A slip of SetField: a field once set is kept (first token wins).
SetFieldIfEmpty(d, key, value) ==
    IF (IF key = "station" THEN d[key] # <<>> ELSE d[key] # "")
    THEN d ELSE [d EXCEPT ![key] = value]

\* decoded[key] = value
SetField(d, key, value) == [d EXCEPT ![key] = value]

\* One pass of the loop body over part: the new `decoded`, or raised = TRUE when
\* the branch raises ValueError (decoded is then as it was).
ProcessPart(d, part) ==
    LET r == RuleOf(part)
    IN  CASE r = "time" ->
               [raised |-> FALSE, decoded |-> SetField(d, "time", TimeText(part))]
          [] r = "wind" ->
               [raised |-> FALSE, decoded |-> SetField(d, "wind", WindText(part))]
          [] r = "visibility" ->
               LET v == decode_visibility(part)
               IN  IF v.raised THEN [raised |-> TRUE, decoded |-> d]
                   ELSE [raised |-> FALSE,
                         decoded |-> SetField(d, "visibility", v.text)]
          [] r = "weather" ->
               LET weather == decode_weather_phenomena(part)
               IN  IF weather # None /\ weather # ""
                   THEN [raised |-> FALSE, decoded |-> SetField(d, "weather", weather)]
                   ELSE [raised |-> FALSE, decoded |-> d]
          [] r = "clouds" ->
               [raised |-> FALSE,
                decoded |-> SetField(d, "clouds", decode_clouds(part))]
          [] r = "temperature" ->
               LET t == TemperatureTexts(part)
               IN  IF t.raised THEN [raised |-> TRUE, decoded |-> d]
                   ELSE [raised |-> FALSE,
                         decoded |-> SetField(SetField(d, "temperature", t.temperature),
                                              "dewpoint", t.dewpoint)]
          [] r = "pressure" ->
               LET p == PressureText(part)
               IN  IF p.raised THEN [raised |-> TRUE, decoded |-> d]
                   ELSE [raised |-> FALSE, decoded |-> SetField(d, "pressure", p.text)]
          [] OTHER -> [raised |-> FALSE, decoded |-> d]

\* A slip of SummaryParts: the clouds are appended whether or not there is
\* weather (if ... if instead of if ... elif).
SummaryPartsBoth(d) ==
    (IF d.weather # "" THEN <<d.weather>> ELSE <<>>)
    \o (IF d.clouds # "" THEN <<d.clouds>> ELSE <<>>)
    \o (IF d.temperature # "" THEN <<d.temperature>> ELSE <<>>)
    \o (IF d.wind # "" THEN <<d.wind>> ELSE <<>>)

\* summary_parts, as the code appends to it.
SummaryParts(d) ==
    (IF d.weather # "" THEN <<d.weather>>
     ELSE IF d.clouds # "" THEN <<d.clouds>> ELSE <<>>)
    \o (IF d.temperature # "" THEN <<d.temperature>> ELSE <<>>)
    \o (IF d.wind # "" THEN <<d.wind>> ELSE <<>>)

\* summary
Summary(d) ==
    IF SummaryParts(d) # <<>> THEN Join(SummaryParts(d))
    ELSE "Weather conditions available"

\* What a call ends with: the failure text, the result dict, or an exception.
UnableToDecode == [kind |-> "unable", text |-> "Unable to decode METAR"]

ResultRecord(d, raw) ==
    [kind |-> "record", summary |-> Summary(d), details |-> d, raw_metar |-> raw]

Raised == [kind |-> "raised", exc |-> "ValueError"]

NoResult == [kind |-> "pending"]

\* The whole of decode_metar, as one function of its argument.
RECURSIVE ScanParts(_, _, _)
ScanParts(d, parts, i) ==
    IF i > Len(parts) THEN [raised |-> FALSE, decoded |-> d]
    ELSE LET step == ProcessPart(d, parts[i])
         IN  IF step.raised THEN step ELSE ScanParts(step.decoded, parts, i + 1)

DecodeMetar(raw) ==
    LET parts == Split(raw)
    IN  IF parts = <<>> THEN UnableToDecode
        ELSE LET scan == ScanParts(SetField(EmptyDecoded, "station", parts[1]), parts, 1)
             IN  IF scan.raised THEN Raised ELSE ResultRecord(scan.decoded, raw)

(***************************************************************************)
(* State.                                                                  *)
(***************************************************************************)
VARIABLES
    metar_string,   \* decode_metar: its argument
    parts,          \* decode_metar: metar_string.split()
    idx,            \* decode_metar: the position in parts of the loop's next part
    decoded,        \* decode_metar: the dict of fields
    rule,           \* decode_metar: the branch the last part took
    pc,             \* decode_metar: where the call is
    result,         \* decode_metar: what the call ended with
    arg,            \* a direct call of a field decoder: its argument
    ret,            \* a direct call of a field decoder: its return value
    form_code,      \* /metar: the airport_code field of the submitted form
    airport_code,   \* /metar: the cleaned airport code
    http_result,    \* fetch_metar: what its request ended with
    metar_raw,      \* /metar: what fetch_metar returned
    rpc,            \* /metar: where the handler is
    calls,          \* /metar: the calls the handler made, in order
    response        \* /metar: the template rendered

decoderVars == <<metar_string, parts, idx, decoded, rule, pc, result>>
directVars == <<arg, ret>>
routeVars == <<form_code, airport_code, http_result, metar_raw, rpc, calls, response>>
vars == <<metar_string, parts, idx, decoded, rule, pc, result, arg, ret,
          form_code, airport_code, http_result, metar_raw, rpc, calls, response>>

\* No decode_metar call, no direct call and no request in progress.
DecoderIdle ==
    /\ metar_string = <<>> /\ parts = <<>> /\ idx = 0 /\ decoded = EmptyDecoded
    /\ rule = "" /\ pc = "idle" /\ result = NoResult

\* A direct call that has not returned yet.
Pending == "<pending>"

DirectIdle == arg = None /\ ret = None

\* What fetch_metar returns: None, or a str.
NoneValue == [none |-> TRUE, text |-> <<>>]

StrValue(s) == [none |-> FALSE, text |-> s]

\* No request made yet.
NoRequest == [kind |-> "none", text |-> <<>>]

RouteIdle ==
    /\ form_code = <<>> /\ airport_code = <<>> /\ metar_raw = NoneValue
    /\ http_result = NoRequest
    /\ rpc = "idle" /\ calls = <<>> /\ response = NoResult

(***************************************************************************)
(* decode_metar, step by step.                                             *)
(***************************************************************************)

\* parts = metar_string.split(); if not parts: return "Unable to decode METAR"
ReturnUnable ==
    /\ pc = "call"
    /\ Split(metar_string) = <<>>
    /\ parts' = Split(metar_string)
    /\ result' = UnableToDecode
    /\ pc' = "return"
    /\ UNCHANGED <<metar_string, idx, decoded, rule, directVars, routeVars>>

\* A slip of SetStation: the station is taken from the last part (parts[-1]).
SetStationFromLast ==
    /\ pc = "call"
    /\ Split(metar_string) # <<>>
    /\ parts' = Split(metar_string)
    /\ decoded' = SetField(EmptyDecoded, "station", parts'[Len(parts')])
    /\ idx' = 1
    /\ pc' = "loop"
    /\ UNCHANGED <<metar_string, rule, result, directVars, routeVars>>

\* A slip of SetStation: the loop starts at the second part (parts[1:]).
SetStationSkipFirst ==
    /\ pc = "call"
    /\ Split(metar_string) # <<>>
    /\ parts' = Split(metar_string)
    /\ decoded' = SetField(EmptyDecoded, "station", parts'[1])
    /\ idx' = 2
    /\ pc' = "loop"
    /\ UNCHANGED <<metar_string, rule, result, directVars, routeVars>>

\* parts = metar_string.split(); decoded['station'] = parts[0]; the loop
\* starts at the first part.
SetStation ==
    /\ pc = "call"
    /\ Split(metar_string) # <<>>
    /\ parts' = Split(metar_string)
    /\ decoded' = SetField(EmptyDecoded, "station", parts'[1])
    /\ idx' = 1
    /\ pc' = "loop"
    /\ UNCHANGED <<metar_string, rule, result, directVars, routeVars>>

\* One pass of the loop that ends normally.
ProcessToken ==
    /\ pc = "loop"
    /\ idx <= Len(parts)
    /\ LET step == ProcessPart(decoded, parts[idx])
       IN  /\ ~step.raised
           /\ decoded' = step.decoded
    /\ rule' = RuleOf(parts[idx])
    /\ idx' = idx + 1
    /\ UNCHANGED <<metar_string, parts, pc, result, directVars, routeVars>>

\* One pass of the loop that raises: the exception leaves decode_metar.
RaiseValueError ==
    /\ pc = "loop"
    /\ idx <= Len(parts)
    /\ ProcessPart(decoded, parts[idx]).raised
    /\ rule' = RuleOf(parts[idx])
    /\ result' = Raised
    /\ pc' = "raised"
    /\ UNCHANGED <<metar_string, parts, idx, decoded, directVars, routeVars>>

\* After the loop: the summary and the returned dict.
BuildSummary ==
    /\ pc = "loop"
    /\ idx > Len(parts)
    /\ result' = ResultRecord(decoded, metar_string)
    /\ pc' = "return"
    /\ UNCHANGED <<metar_string, parts, idx, decoded, rule, directVars, routeVars>>

(***************************************************************************)
(* The reports decode_metar is run on.                                     *)
(***************************************************************************)

\* The longest report, in tokens.
MaxParts == 3

\* The tokens the reports are made of: one or more for each branch of the
\* loop, well-formed and not.
TokenPool ==
    { <<"k", "b", "r", "o">>,
      <<"K", "B", "R", "O">>,
      <<"0", "6", "1", "8", "5", "3", "Z">>,
      <<"2", "7", "0", "0", "8", "K", "T">>,
      <<"1", "0", "S", "M">>,
      <<"S", "M">>,
      <<"P", "6", "S", "M">>,
      <<"+", "T", "S", "R", "A">>,
      <<"S", "C", "T", "0", "0", "8">>,
      <<"B", "K", "N", "0", "1", "5">>,
      <<"O", "V", "C", "0", "2", "5">>,
      <<"2", "2", "/", "1", "6">>,
      <<"2", "2", "/", "1", "6", "X">>,
      <<"A", "3", "0", "1", "2">>,
      <<"A", "X", "X", "X", "X">> }

\* Two ways of laying the tokens out in a report: single blanks, and (wide)
\* blanks of several kinds around and between the tokens.
RECURSIVE Layout(_, _)
Layout(toks, wide) ==
    IF toks = <<>> THEN (IF wide THEN <<" ", "\n">> ELSE <<>>)
    ELSE IF Len(toks) = 1
         THEN (IF wide THEN <<" ">> \o toks[1] \o <<"\n">> ELSE toks[1])
         ELSE (IF wide THEN <<" ">> \o toks[1] \o <<"\t">> ELSE toks[1] \o <<" ">>)
                  \o LStrip(Layout(Tail(toks), wide))

\* Every report of up to MaxParts tokens, and every shorter one laid out wide.
Reports ==
    {Layout(toks, FALSE) : toks \in UNION {[1..n -> TokenPool] : n \in 0..MaxParts}}
    \cup
    {Layout(toks, TRUE) : toks \in UNION {[1..n -> TokenPool] : n \in 0..(MaxParts - 1)}}

Init ==
    /\ metar_string \in Reports
    /\ parts = <<>> /\ idx = 0 /\ decoded = EmptyDecoded /\ rule = ""
    /\ pc = "call" /\ result = NoResult
    /\ DirectIdle
    /\ RouteIdle

Next ==
    \/ ReturnUnable
    \/ SetStation
    \/ ProcessToken
    \/ RaiseValueError
    \/ BuildSummary

Spec == Init /\ [][Next]_vars

(***************************************************************************)
(* Properties of decode_metar, checked under Spec.                         *)
(***************************************************************************)

\* The position in parts of the part the loop handled last (0: none yet).
LastHandled == IF pc = "raised" THEN idx ELSE idx - 1

\* The first maximal run of non-blank characters of raw, found by position.
FirstToken(raw) ==
    LET starts == {i \in 1..Len(raw) : ~IsSpace(raw[i])}
        first  == CHOOSE i \in starts : \A j \in starts : i <= j
        stops  == {i \in first..Len(raw) : IsSpace(raw[i])}
        stop   == IF stops = {} THEN Len(raw) + 1
                  ELSE CHOOSE i \in stops : \A j \in stops : i <= j
    IN  IF starts = {} THEN <<>> ELSE SubSeq(raw, first, stop - 1)

HasToken(raw) == \E i \in 1..Len(raw) : ~IsSpace(raw[i])

\* C1: for every input with at least one token, decode_metar returns a result
\* record and never raises, whatever the tokens are (a token whose numeric
\* part cannot be parsed included).
C1_GracefulDegradation ==
    HasToken(metar_string) =>
        /\ pc # "raised"
        /\ pc = "return" => result.kind = "record"

\* C2: decode_metar returns the failure value "Unable to decode METAR" exactly
\* when the input has no token, and for every input with at least one token
\* the call ends with a result record as its return value.
C2_UnableExactlyWhenNoTokens ==
    pc \in {"return", "raised"} =>
        /\ (result = UnableToDecode) <=> ~HasToken(metar_string)
        /\ HasToken(metar_string) => result.kind = "record"

\* C3: once decode_metar has set it, the station is the first
\* whitespace-delimited token of the input, character for character, and it
\* stays so while the later tokens are handled and in the returned record.
C3_StationIsFirstToken ==
    /\ pc \in {"loop", "raised"} => decoded.station = FirstToken(metar_string)
    /\ (pc = "return" /\ result.kind = "record") =>
           /\ result.details.station = FirstToken(metar_string)
           /\ result.details.station # <<>>

\* C3 witness: a returned record for a widely spaced two-token report whose
\* first token is lower-case and whose second token set a field.
C3_Witness ==
    /\ pc = "return" /\ result.kind = "record"
    /\ metar_string = <<" ", "k", "b", "r", "o", "\t", "1", "0", "S", "M", "\n">>
    /\ result.details.station = <<"k", "b", "r", "o">>
    /\ result.details.visibility = "10+ miles visibility"

\* C4: a token that is exactly "SM" is not taken by the visibility branch and
\* does not end the call: it falls through and decoding goes on.
C4_BareSMFallsThrough ==
    (pc \in {"loop", "raised", "return"} /\ LastHandled >= 1
        /\ parts[LastHandled] = SM) =>
        /\ rule # "visibility"
        /\ pc # "raised"

\* The position of the last of the first k parts whose branch is r (0: none);
\* rules[i] is the branch of part i.
LastOf(rules, r, k) ==
    LET hits == {i \in 1..k : rules[i] = r}
    IN  IF hits = {} THEN 0 ELSE CHOOSE i \in hits : \A j \in hits : j <= i

\* What field f holds when the last part of its category among the first k
\* parts decided it alone.
FieldFromLast(rules, f, k) ==
    LET r == IF f = "dewpoint" THEN "temperature" ELSE f
        i == LastOf(rules, r, k)
    IN  IF i = 0 THEN ""
        ELSE CASE f = "time" -> TimeText(parts[i])
               [] f = "wind" -> WindText(parts[i])
               [] f = "visibility" -> decode_visibility(parts[i]).text
               [] f = "weather" -> decode_weather_phenomena(parts[i])
               [] f = "clouds" -> decode_clouds(parts[i])
               [] f = "temperature" -> TemperatureTexts(parts[i]).temperature
               [] f = "dewpoint" -> TemperatureTexts(parts[i]).dewpoint
               [] f = "pressure" -> PressureText(parts[i]).text

ScannedFields ==
    {"time", "wind", "visibility", "weather", "clouds", "temperature",
     "dewpoint", "pressure"}

\* C5: last token wins. Every field other than station is empty when the scan
\* starts, and in the record returned after the scan each field holds the
\* decoding of the last part of the input that was classified into it (it is
\* empty when there is none): earlier parts of the category are overwritten.
C5_LastTokenWins ==
    /\ (pc = "loop" /\ idx = 1) => \A f \in ScannedFields : decoded[f] = ""
    /\ (pc = "return" /\ result.kind = "record") =>
           LET rules == [i \in 1..Len(parts) |-> RuleOf(parts[i])]
           IN  \A f \in ScannedFields :
                   result.details[f] = FieldFromLast(rules, f, Len(parts))

\* C5 witness: SCT008 BKN015 OVC025, in this order, returned as overcast.
C5_Witness ==
    /\ pc = "return" /\ result.kind = "record"
    /\ parts = << <<"S", "C", "T", "0", "0", "8">>,
                  <<"B", "K", "N", "0", "1", "5">>,
                  <<"O", "V", "C", "0", "2", "5">> >>
    /\ result.details.clouds = "overcast at 2500 feet"

\* a and b joined with ", " when both are present.
Sep(a, b) == IF a = "" THEN b ELSE IF b = "" THEN a ELSE a \o ", " \o b

\* C6: the summary of a returned record is the ", "-join of the weather text
\* (or, without weather, the clouds text), the temperature text and the wind
\* text of the record's own details, those present, in this order; it is
\* "Weather conditions available" when none is present, and never empty.
C6_SummaryFromFinalFields ==
    (pc = "return" /\ result.kind = "record") =>
        LET d     == result.details
            sky   == IF d.weather # "" THEN d.weather ELSE d.clouds
            texts == Sep(Sep(sky, d.temperature), d.wind)
        IN  /\ d = decoded
            /\ result.summary =
                   IF texts = "" THEN "Weather conditions available" ELSE texts
            /\ result.summary # ""

\* C6 witness: weather and clouds both present, with a temperature: the
\* summary names the weather and not the clouds.
C6_Witness ==
    /\ pc = "return" /\ result.kind = "record"
    /\ result.details.weather = "heavy rain, heavy thunderstorm"
    /\ result.details.clouds = "overcast at 2500 feet"
    /\ result.details.temperature = "72°F (22°C)"
    /\ result.summary = "heavy rain, heavy thunderstorm, 72°F (22°C)"

(***************************************************************************)
(* decode_weather_phenomena, called directly and through decode_metar, on  *)
(* weather-like tokens.                                                    *)
(***************************************************************************)

\* The longest weather-like token, in pieces after its first piece.
MaxWxPieces == 2

\* How a weather-like token starts: an intensity modifier, or not.
WxPrefixes == {<<>>, <<"-">>, <<"+">>, <<"V", "C">>, <<"X">>}

\* What follows: phenomenon codes and other characters, in any order.
WxPieces ==
    {phenomena[i].code : i \in 1..Len(phenomena)} \cup {<<"X">>, <<"-">>}

RECURSIVE Flatten(_)
Flatten(pieces) ==
    IF pieces = <<>> THEN <<>> ELSE Head(pieces) \o Flatten(Tail(pieces))

WxTokens ==
    {pre \o Flatten(pieces) :
        pre \in WxPrefixes,
        pieces \in UNION {[1..n -> WxPieces] : n \in 0..MaxWxPieces}}

\* decode_weather_phenomena(arg), called directly.
CallWeatherDecoder ==
    /\ ret = Pending
    /\ ret' = decode_weather_phenomena(arg)
    /\ UNCHANGED <<arg, decoderVars, routeVars>>

\* A weather-like token, handed to decode_weather_phenomena and, as a report
\* of its own, to decode_metar.
InitWx ==
    /\ arg \in WxTokens
    /\ ret = Pending
    /\ metar_string = arg
    /\ parts = <<>> /\ idx = 0 /\ decoded = EmptyDecoded /\ rule = ""
    /\ pc = "call" /\ result = NoResult
    /\ RouteIdle

NextWx ==
    \/ CallWeatherDecoder
    \/ ReturnUnable
    \/ SetStation
    \/ ProcessToken
    \/ BuildSummary

SpecWx == InitWx /\ [][NextWx]_vars

\* The codes and their texts, in the order the claim fixes.
WxCodes ==
    << <<"R", "A">>, <<"S", "N">>, <<"D", "Z">>, <<"F", "G">>,
       <<"B", "R">>, <<"H", "Z">>, <<"T", "S">>, <<"S", "H">> >>

WxNames ==
    <<"rain", "snow", "drizzle", "fog", "mist", "haze", "thunderstorm", "showers">>

\* Code i occurs somewhere in token t.
Occurs(t, i) == \E k \in 1..(Len(t) - 1) : t[k] = WxCodes[i][1] /\ t[k + 1] = WxCodes[i][2]

\* The one intensity word of token t, from its start.
IntensityOf(t) ==
    IF Len(t) >= 1 /\ t[1] = "-" THEN "light "
    ELSE IF Len(t) >= 1 /\ t[1] = "+" THEN "heavy "
    ELSE IF Len(t) >= 2 /\ t[1] = "V" /\ t[2] = "C" THEN "nearby "
    ELSE ""

\* The text for code i in token t: empty when the code does not occur.
WxItem(t, i) == IF Occurs(t, i) THEN IntensityOf(t) \o WxNames[i] ELSE ""

\* The texts of the codes that occur in t, in the fixed order, ", " between.
WxExpected(t) ==
    Sep(Sep(Sep(Sep(Sep(Sep(Sep(WxItem(t, 1), WxItem(t, 2)), WxItem(t, 3)),
        WxItem(t, 4)), WxItem(t, 5)), WxItem(t, 6)), WxItem(t, 7)), WxItem(t, 8))

\* C7: decode_weather_phenomena reports every code that occurs anywhere in the
\* token, in the fixed order RA, SN, DZ, FG, BR, HZ, TS, SH, joined with ", ",
\* each with the one intensity word of the token in front; without any code
\* it returns None, and decode_metar then leaves the weather field empty (with
\* a code, decode_metar stores the same text for these tokens).
C7_WeatherPhenomena ==
    LET none == \A i \in 1..8 : ~Occurs(arg, i)
    IN  /\ ret # Pending =>
               /\ none <=> ret = None
               /\ ~none => ret = WxExpected(arg)
        /\ pc = "loop" => decoded.weather = (IF idx = 1 \/ none THEN "" ELSE WxExpected(arg))
        /\ (pc = "return" /\ result.kind = "record") =>
               result.details.weather = (IF none THEN "" ELSE WxExpected(arg))

\* C7 witness: +TSRA gave "heavy rain, heavy thunderstorm", directly and as
\* the weather field of decode_metar.
C7_Witness ==
    /\ arg = <<"+", "T", "S", "R", "A">>
    /\ ret = "heavy rain, heavy thunderstorm"
    /\ pc = "return" /\ result.kind = "record"
    /\ result.details.weather = "heavy rain, heavy thunderstorm"

(***************************************************************************)
(* decode_metar on temperature/dewpoint tokens.                            *)
(***************************************************************************)

\* M?\d{2}: every group of a temperature/dewpoint token.
TempGroups ==
    {sign \o <<Digits[a], Digits[b]>> :
        sign \in {<<>>, <<"M">>}, a \in 1..10, b \in 1..10}

\* Every token of the shape M?\d{2}/M?\d{2}.
TempTokens == {t \o <<"/">> \o d : t \in TempGroups, d \in TempGroups}

\* A report that is one temperature/dewpoint token.
InitTemp ==
    /\ metar_string \in TempTokens
    /\ parts = <<>> /\ idx = 0 /\ decoded = EmptyDecoded /\ rule = ""
    /\ pc = "call" /\ result = NoResult
    /\ DirectIdle
    /\ RouteIdle

NextTemp ==
    \/ SetStation
    \/ ProcessToken
    \/ BuildSummary

SpecTemp == InitTemp /\ [][NextTemp]_vars

\* The signed value of the group M?\d{2} that starts at position i of token t.
GroupCelsius(t, i) ==
    IF t[i] = "M" THEN 0 - (10 * DigitVal(t[i + 1]) + DigitVal(t[i + 2]))
    ELSE 10 * DigitVal(t[i]) + DigitVal(t[i + 1])

\* The integer nearest to c * 9/5 + 32.
NearestFahrenheit(c) == (18 * c + 325) \div 10

\* "<F>°F (<C>°C)" for the Celsius value c.
TemperatureText(c) ==
    IntStr(NearestFahrenheit(c)) \o "°F (" \o IntStr(c) \o "°C)"

\* C8: for every token M?dd/M?dd decode_metar sets temperature to
\* "<F>°F (<C>°C)" from the first group and dewpoint to "Dewpoint <F>°F (<C>°C)"
\* from the second, C the signed value of the group (M is minus, -99..99) and
\* F = floor((18 * C + 325) / 10), the integer nearest to C * 9/5 + 32; and
\* celsius_to_fahrenheit(-273) = -459.
C8_TemperatureDewpoint ==
    /\ (pc = "return" /\ result.kind = "record") =>
           LET t      == metar_string
               second == IF t[1] = "M" THEN 5 ELSE 4
               temp_c == GroupCelsius(t, 1)
               dew_c  == GroupCelsius(t, second)
           IN  /\ temp_c \in -99..99 /\ dew_c \in -99..99
               /\ result.details.temperature = TemperatureText(temp_c)
               /\ result.details.dewpoint = "Dewpoint " \o TemperatureText(dew_c)
    /\ celsius_to_fahrenheit(-273) = -459

\* C8 witness: M15/M20 returned as 5°F (-15°C) and Dewpoint -4°F (-20°C).
C8_Witness ==
    /\ pc = "return" /\ result.kind = "record"
    /\ metar_string = <<"M", "1", "5", "/", "M", "2", "0">>
    /\ result.details.temperature = "5°F (-15°C)"
    /\ result.details.dewpoint = "Dewpoint -4°F (-20°C)"

(***************************************************************************)
(* get_wind_direction_text, called directly.                               *)
(***************************************************************************)

\* The degree values tried: -MaxDegrees .. MaxDegrees, two turns either way.
MaxDegrees == 725

\* get_wind_direction_text(arg), called directly.
CallWindDirection ==
    /\ ret = Pending
    /\ ret' = get_wind_direction_text(arg)
    /\ UNCHANGED <<arg, decoderVars, routeVars>>

InitWind ==
    /\ arg \in (0 - MaxDegrees)..MaxDegrees
    /\ ret = Pending
    /\ DecoderIdle
    /\ RouteIdle

NextWind == CallWindDirection

SpecWind == InitWind /\ [][NextWind]_vars

\* The full-word names of the 16 compass points, clockwise from north.
CompassNames ==
    <<"north", "north-northeast", "northeast", "east-northeast",
      "east", "east-southeast", "southeast", "south-southeast",
      "south", "south-southwest", "southwest", "west-southwest",
      "west", "west-northwest", "northwest", "north-northwest">>

\* Compass point k (0..15, at 22.5 * k degrees) is the one nearest to d
\* degrees, whole turns aside: d is within 11.25 degrees of it modulo 360.
\* In quarter degrees: 4 * d - 90 * k is in -45 .. 44 modulo 1440.
NearestPoint(d, k) == (4 * d - 90 * k + 45) % 1440 < 90

\* C9: get_wind_direction_text wraps around. For every integer d it returns
\* the name of the compass point with index round(d / 22.5) mod 16, the point
\* nearest to d whole turns aside, so its result for d is its result for
\* d mod 360; 0, 360, 361 and -1 give north, 90 east, 180 south, 270 west.
C9_WindDirectionWraps ==
    ret # Pending =>
        /\ \E k \in 0..15 : NearestPoint(arg, k) /\ ret = CompassNames[k + 1]
        /\ ret = get_wind_direction_text(arg % 360)
        /\ arg \in {0, 360, 361, -1} => ret = "north"
        /\ arg = 90 => ret = "east"
        /\ arg = 180 => ret = "south"
        /\ arg = 270 => ret = "west"

\* C9 witness: -1 degrees gave north.
C9_Witness == arg = -1 /\ ret = "north"

(***************************************************************************)
(* fetch_metar and the /metar request handler, get_metar.                  *)
(***************************************************************************)

\* What requests.get and raise_for_status can end with: an exception of the
\* transport (a timeout included), an HTTP error status, or a response body.
HttpException == [kind |-> "exception", text |-> <<>>]

HttpErrorStatus == [kind |-> "http_error", text |-> <<>>]

HttpBody(text) == [kind |-> "ok", text |-> text]

\* The response bodies tried: none, blank, "no data" answers in several letter
\* cases and with blanks around them, bodies that only resemble one, a report
\* decode_metar decodes and one it raises on.
Bodies ==
    { <<>>,
      <<" ", " ", " ">>,
      <<"N", "o", " ", "M", "E", "T", "A", "R", " ", "a", "v", "a", "i", "l",
        "a", "b", "l", "e">>,
      <<"n", "o", " ", "m", "e", "t", "a", "r">>,
      <<"\n", " ", "N", "O", " ", "m", "E", "T", "a", "R", "s", "\n">>,
      <<"\t", "\n">>,
      <<"N", "o", "m", "e", "t", "a", "r">>,
      <<" ", "K", "N", "O", "M", "\t", "n", "o", " ", "m", "e", "t", "a", "r", " ", "\n">>,
      <<"K", "H", "I", "O", " ", "1", "0", "S", "M", " ", "C", "L", "R", "\n">>,
      <<"K", "D", "S", "M", " ", "1", "0", "S", "M", "\n">> }

HttpOutcomes == {HttpException, HttpErrorStatus} \cup {HttpBody(b) : b \in Bodies}

\* A slip of FetchMetar: the "no metar" answer is looked for without lower().
FetchMetarCaseSensitive(code, http) ==
    IF http.kind # "ok" THEN NoneValue
    ELSE LET metar_data == Strip(http.text)
         IN  IF metar_data = <<>>
                  \/ StartsWith(metar_data, <<"n", "o", " ", "m", "e", "t", "a", "r">>)
             THEN NoneValue
             ELSE StrValue(metar_data)

\* A slip of FetchMetar: the body is neither stripped nor tested for blanks.
FetchMetarNoStrip(code, http) ==
    IF http.kind # "ok" THEN NoneValue
    ELSE LET metar_data == http.text
         IN  IF metar_data = <<>>
                  \/ StartsWith(Lower(metar_data),
                                <<"n", "o", " ", "m", "e", "t", "a", "r">>)
             THEN NoneValue
             ELSE StrValue(metar_data)

\* fetch_metar(airport_code) when the request ends with http.
FetchMetar(code, http) ==
    IF http.kind # "ok" THEN NoneValue
    ELSE LET metar_data == Strip(http.text)
         IN  IF metar_data = <<>>
                  \/ StartsWith(Lower(metar_data),
                                <<"n", "o", " ", "m", "e", "t", "a", "r">>)
             THEN NoneValue
             ELSE StrValue(metar_data)

\* A rendered template and what it is given.
Page(template, error, code, decoded_metar) ==
    [template |-> template, error |-> error, airport_code |-> code,
     decoded |-> decoded_metar]

\* A slip of CleanCode: the code is trimmed and not upper-cased.
CleanCodeNotUpper(form) == Strip(form)

\* request.form.get('airport_code', '').strip().upper()
CleanCode(form) == Upper(Strip(form))

\* if not airport_code: the "Please enter" page.
RejectEmpty ==
    /\ rpc = "start"
    /\ CleanCode(form_code) = <<>>
    /\ airport_code' = CleanCode(form_code)
    /\ response' = Page("index.html", "Please enter an airport code", <<>>, NoResult)
    /\ rpc' = "done"
    /\ UNCHANGED <<form_code, http_result, metar_raw, calls, decoderVars, directVars>>

\* if len(airport_code) != 4: the "must be 4 characters" page.
RejectLength ==
    /\ rpc = "start"
    /\ CleanCode(form_code) # <<>>
    /\ Len(CleanCode(form_code)) # 4
    /\ airport_code' = CleanCode(form_code)
    /\ response' = Page("index.html",
                        "Airport code must be 4 characters (e.g., KHIO)", <<>>, NoResult)
    /\ rpc' = "done"
    /\ UNCHANGED <<form_code, http_result, metar_raw, calls, decoderVars, directVars>>

\* metar_raw = fetch_metar(airport_code): one request, for the upper-cased
\* code, and whatever it ends with.
CallFetchMetar ==
    /\ rpc = "start"
    /\ CleanCode(form_code) # <<>>
    /\ Len(CleanCode(form_code)) = 4
    /\ airport_code' = CleanCode(form_code)
    /\ calls' = calls \o << [fn |-> "fetch_metar", arg |-> airport_code'],
                           [fn |-> "requests.get", arg |-> Upper(airport_code')] >>
    /\ \E http \in HttpOutcomes :
           /\ http_result' = http
           /\ metar_raw' = FetchMetar(airport_code', http)
    /\ rpc' = "fetched"
    /\ UNCHANGED <<form_code, response, decoderVars, directVars>>

\* if not metar_raw: the "Could not fetch" page.
RenderFetchError ==
    /\ rpc = "fetched"
    /\ metar_raw.none \/ metar_raw.text = <<>>
    /\ response' = Page("index.html",
                        "Could not fetch METAR for " \o Str(airport_code)
                            \o ". Please check the airport code.", <<>>, NoResult)
    /\ rpc' = "done"
    /\ UNCHANGED <<form_code, airport_code, http_result, metar_raw, calls, decoderVars,
                   directVars>>

\* decoder.decode_metar(metar_raw) returns, and the result page is rendered.
DecodeAndRender ==
    /\ rpc = "fetched"
    /\ ~(metar_raw.none \/ metar_raw.text = <<>>)
    /\ DecodeMetar(metar_raw.text).kind # "raised"
    /\ calls' = Append(calls, [fn |-> "decode_metar", arg |-> metar_raw.text])
    /\ response' = Page("result.html", "", airport_code, DecodeMetar(metar_raw.text))
    /\ rpc' = "done"
    /\ UNCHANGED <<form_code, airport_code, http_result, metar_raw, decoderVars, directVars>>

\* decoder.decode_metar(metar_raw) raises: the exception leaves the handler
\* and no template is rendered.
DecodeRaises ==
    /\ rpc = "fetched"
    /\ ~(metar_raw.none \/ metar_raw.text = <<>>)
    /\ DecodeMetar(metar_raw.text).kind = "raised"
    /\ calls' = Append(calls, [fn |-> "decode_metar", arg |-> metar_raw.text])
    /\ response' = Page("", "ValueError", airport_code, Raised)
    /\ rpc' = "done"
    /\ UNCHANGED <<form_code, airport_code, http_result, metar_raw, decoderVars, directVars>>

\* The longest submitted airport code, in characters, blanks around it aside.
MaxCodeLen == 5

\* The characters of the submitted codes: a lower-case letter, an upper-case
\* letter and a digit.
FormChars == {"k", "H", "1"}

\* Every code of up to MaxCodeLen characters, bare and with blanks around it.
FormCodes ==
    LET cores == UNION {[1..n -> FormChars] : n \in 0..MaxCodeLen}
    IN  cores \cup {<<" ">> \o c \o <<"\n">> : c \in cores}

InitRoute ==
    /\ form_code \in FormCodes
    /\ airport_code = <<>> /\ http_result = NoRequest /\ metar_raw = NoneValue
    /\ rpc = "start" /\ calls = <<>> /\ response = NoResult
    /\ DecoderIdle
    /\ DirectIdle

NextRoute ==
    \/ RejectEmpty
    \/ RejectLength
    \/ CallFetchMetar
    \/ RenderFetchError
    \/ DecodeAndRender
    \/ DecodeRaises

SpecRoute == InitRoute /\ [][NextRoute]_vars

\* C10: in the /metar handler fetch_metar is called only after validation: never
\* when the submitted code, trimmed and upper-cased, is empty or not 4
\* characters long (an error page is rendered instead), and always with the
\* trimmed, upper-cased 4-character code; decode_metar is called only after
\* fetch_metar returned a non-empty report, with that report; and a failed
\* fetch renders the "Could not fetch METAR for <code>" error without decoding.
C10_FetchAfterValidation ==
    LET clean  == Upper(Strip(form_code))
        failed == metar_raw.none \/ metar_raw.text = <<>>
        called(f) == \E i \in 1..Len(calls) : calls[i].fn = f
    IN  /\ Len(clean) # 4 =>
               /\ calls = <<>>
               /\ rpc = "done" =>
                      response.template = "index.html" /\ response.error # ""
        /\ \A i \in 1..Len(calls) :
               calls[i].fn = "fetch_metar" =>
                   Len(calls[i].arg) = 4 /\ calls[i].arg = clean
        /\ \A i \in 1..Len(calls) :
               calls[i].fn = "decode_metar" =>
                   /\ \E j \in 1..(i - 1) : calls[j].fn = "fetch_metar"
                   /\ ~failed
                   /\ calls[i].arg = metar_raw.text
        /\ (rpc = "done" /\ called("fetch_metar") /\ failed) =>
               /\ ~called("decode_metar")
               /\ response.template = "index.html"
               /\ response.error = "Could not fetch METAR for " \o Str(clean)
                                       \o ". Please check the airport code."

\* C10 witness: " kH1k\n" was submitted, fetch_metar was called with KH1K and
\* failed, and the error page names KH1K.
C10_Witness ==
    /\ rpc = "done"
    /\ form_code = <<" ", "k", "H", "1", "k", "\n">>
    /\ calls = << [fn |-> "fetch_metar", arg |-> <<"K", "H", "1", "K">>],
                  [fn |-> "requests.get", arg |-> <<"K", "H", "1", "K">>] >>
    /\ metar_raw = NoneValue
    /\ response.error = "Could not fetch METAR for KH1K. Please check the airport code."

(***************************************************************************)
(* fetch_metar: what it returns for each way its request can end.          *)
(***************************************************************************)

\* The body b without its leading and trailing blanks, taken by position.
Trimmed(b) ==
    LET inked == {i \in 1..Len(b) : ~IsSpace(b[i])}
    IN  IF inked = {} THEN <<>>
        ELSE SubSeq(b, CHOOSE i \in inked : \A j \in inked : i <= j,
                       CHOOSE i \in inked : \A j \in inked : j <= i)

\* The characters a and b are the same letter in either case, or the same
\* character.
SameLetter(a, b) ==
    \/ a = b
    \/ \E k \in 1..26 : {a, b} = {LowerCase[k], UpperCase[k]}

\* t begins with "no metar" in any letter case.
BeginsNoMetar(t) ==
    LET no_metar == <<"n", "o", " ", "m", "e", "t", "a", "r">>
    IN  /\ Len(t) >= 8
        /\ \A i \in 1..8 : SameLetter(t[i], no_metar[i])

\* C11: fetch_metar never raises and collapses every failure to None: a
\* transport error or timeout, an HTTP error status, a body that is empty or
\* all blanks, and a body whose text begins with "no metar" in any letter case
\* all give the same None; in every other case it returns the body without its
\* leading and trailing blanks. Each call makes exactly one request.
C11_FetchFailuresAreNone ==
    LET failure == \/ http_result.kind \in {"exception", "http_error"}
                   \/ \A i \in 1..Len(http_result.text) : IsSpace(http_result.text[i])
                   \/ BeginsNoMetar(Trimmed(http_result.text))
        fetches  == {i \in 1..Len(calls) : calls[i].fn = "fetch_metar"}
        requests == {i \in 1..Len(calls) : calls[i].fn = "requests.get"}
    IN  /\ http_result = NoRequest <=> fetches = {}
        /\ http_result # NoRequest =>
               /\ failure => metar_raw = NoneValue
               /\ ~failure => metar_raw = [none |-> FALSE, text |-> Trimmed(http_result.text)]
        /\ Cardinality(requests) = Cardinality(fetches)
        /\ \A i \in fetches : i + 1 \in requests

\* C11 witness: the body "\n NO mETaRs\n" came back, fetch_metar returned
\* None after its one request, and the handler rendered the fetch error.
C11_Witness ==
    /\ rpc = "done"
    /\ http_result = HttpBody(<<"\n", " ", "N", "O", " ", "m", "E", "T", "a", "R", "s", "\n">>)
    /\ metar_raw = NoneValue
    /\ Len(calls) = 2 /\ calls[2].fn = "requests.get"
    /\ response.template = "index.html"

(***************************************************************************)
(* decode_metar on tokens that more than one branch of the loop would      *)
(* take, and on station identifiers that a branch takes.                   *)
(***************************************************************************)

\* The longest of these reports, in tokens.
MaxOrderParts == 2

\* Station identifiers (plain, with a phenomenon code, ending in SM), tokens
\* that satisfy the tests of two or three branches, tokens that satisfy none,
\* and one plain token for each of four fields.
OrderPool ==
    { <<"K", "H", "I", "O">>,
      <<"K", "B", "R", "O">>,
      <<"K", "S", "N", "A">>,
      <<"K", "D", "S", "M">>,
      <<"0", "6", "1", "8", "5", "3", "Z", "R", "A">>,
      <<"2", "7", "0", "0", "8", "K", "T", "S">>,
      <<"V", "R", "B", "0", "5", "K", "T", "S", "M">>,
      <<"R", "A", "S", "M">>,
      <<"M", "0", "5", "/", "M", "1", "0", "S", "M">>,
      <<"F", "E", "W", "S", "H">>,
      <<"2", "2", "/", "1", "6", "R", "A">>,
      <<"A", "B", "R", "S", "N">>,
      <<"A", "U", "T", "O">>,
      <<"R", "M", "K">>,
      <<"1", "0", "S", "M">>,
      <<"S", "C", "T", "0", "0", "8">>,
      <<"M", "0", "5", "/", "M", "1", "0">>,
      <<"A", "3", "0", "1", "2">> }

\* Every report of one to MaxOrderParts of these tokens.
OrderReports ==
    {Layout(toks, FALSE) : toks \in UNION {[1..n -> OrderPool] : n \in 1..MaxOrderParts}}

InitOrder ==
    /\ metar_string \in OrderReports
    /\ parts = <<>> /\ idx = 0 /\ decoded = EmptyDecoded /\ rule = ""
    /\ pc = "call" /\ result = NoResult
    /\ DirectIdle
    /\ RouteIdle

NextOrder ==
    \/ SetStation
    \/ ProcessToken
    \/ RaiseValueError
    \/ BuildSummary

SpecOrder == InitOrder /\ [][NextOrder]_vars

\* The rules in the order the claim gives them, and the fields of each.
RuleOrder ==
    <<"time", "wind", "visibility", "weather", "clouds", "temperature", "pressure">>

CategoryFields(r) ==
    IF r = "temperature" THEN {"temperature", "dewpoint"}
    ELSE IF r = "none" THEN {}
    ELSE {r}

\* part satisfies the test of rule r, whatever the other rules say.
Matches(r, part) ==
    CASE r = "time" -> MatchTime(part)
      [] r = "wind" -> MatchWindFixed(part) \/ MatchWindVariable(part)
      [] r = "visibility" -> EndsWith(part, SM)
      [] r = "weather" -> AnyWeatherCode(part)
      [] r = "clouds" -> AnyCloudPrefix(part)
      [] r = "temperature" -> MatchTemperature(part)
      [] r = "pressure" -> StartsWith(part, <<"A">>) /\ Len(part) = 5

\* The first rule of RuleOrder that part satisfies ("none": it satisfies none).
FirstMatching(part) ==
    LET hits == {i \in 1..Len(RuleOrder) : Matches(RuleOrder[i], part)}
    IN  IF hits = {} THEN "none"
        ELSE RuleOrder[CHOOSE i \in hits : \A j \in hits : i <= j]

\* C12: per-token frame condition. Every pass of the loop applies to its token
\* the first rule, in the order time, wind, visibility, weather, clouds,
\* temperature/dewpoint, pressure, that the token satisfies, and no other;
\* it changes no field outside that rule's category (temperature and dewpoint
\* are one category); and a token that satisfies no rule leaves every field
\* as it was and raises no error.
C12_TokenFrame ==
    [][ (pc = "loop" /\ idx <= Len(parts)) =>
            LET first == FirstMatching(parts[idx])
            IN  /\ rule' = first
                /\ \A f \in DOMAIN decoded :
                       decoded'[f] # decoded[f] => f \in CategoryFields(first)
                /\ first = "none" =>
                       decoded' = decoded /\ pc' = "loop" /\ idx' = idx + 1 ]_vars

\* C12 witness: in SCT008 FEWSH the second token, which the weather test and
\* the clouds test both accept, went to weather and left the clouds alone.
C12_Witness ==
    /\ pc = "loop" /\ idx = 3
    /\ parts = << <<"S", "C", "T", "0", "0", "8">>, <<"F", "E", "W", "S", "H">> >>
    /\ rule = "weather"
    /\ decoded.weather = "showers"
    /\ decoded.clouds = "scattered clouds at 800 feet"

\* C13: the first token is stored as station and then goes through the rules
\* like every other token. After the first pass of the loop the rule taken is
\* the one the first token satisfies and the fields are the ones it sets: a
\* first token with a phenomenon code (and no earlier rule) has set weather,
\* and a report made of that token alone returns that text as its summary
\* ("KBRO": "mist", "KSNA": "snow"); a first token ending in SM (and no
\* earlier rule, "KDSM") took the visibility rule, decode_visibility.
C13_StationIsClassified ==
    LET first == parts[1]
        early == MatchTime(first) \/ MatchWindFixed(first) \/ MatchWindVariable(first)
        passed == (pc = "loop" /\ idx >= 2) \/ pc = "return"
        bare == [EmptyDecoded EXCEPT !.station = first]
    IN  /\ (pc = "loop" /\ idx = 1) => decoded = bare
        /\ ((pc = "loop" /\ idx = 2) \/ (pc = "raised" /\ idx = 1)) =>
               /\ rule = FirstMatching(first)
               /\ (~early /\ EndsWith(first, SM)) => rule = "visibility"
        /\ (passed /\ ~early /\ ~EndsWith(first, SM) /\ AnyWeatherCode(first)) =>
               /\ decoded.station = first
               /\ Len(parts) = 1 \/ (pc = "loop" /\ idx = 2) =>
                      decoded = [bare EXCEPT !.weather = WxExpected(first)]
               /\ (pc = "return" /\ Len(parts) = 1) =>
                      /\ result.kind = "record"
                      /\ result.details.weather = WxExpected(first)
                      /\ result.summary = WxExpected(first)
                      /\ first = <<"K", "B", "R", "O">> => result.summary = "mist"
                      /\ first = <<"K", "S", "N", "A">> => result.summary = "snow"

\* C13 witness: the report "KBRO" returned with station KBRO, weather "mist"
\* and the summary "mist".
C13_Witness ==
    /\ pc = "return"
    /\ metar_string = <<"K", "B", "R", "O">>
    /\ result.details.station = <<"K", "B", "R", "O">>
    /\ result.details.weather = "mist"
    /\ result.summary = "mist"

(***************************************************************************)
(* The /metar handler: what decode_metar is given and what it hands on.    *)
(***************************************************************************)

\* C14: whenever the /metar handler calls decode_metar, the report it passes
\* is the one fetch_metar returned and has at least one token, so the call
\* never returns "Unable to decode METAR"; and whenever result.html is
\* rendered it is given a result record.
C14_FetchedReportHasToken ==
    /\ ~metar_raw.none =>
           /\ metar_raw.text # <<>>
           /\ ~IsSpace(metar_raw.text[1])
           /\ ~IsSpace(metar_raw.text[Len(metar_raw.text)])
    /\ \A i \in 1..Len(calls) :
           calls[i].fn = "decode_metar" =>
               /\ ~metar_raw.none /\ calls[i].arg = metar_raw.text
               /\ HasToken(calls[i].arg)
               /\ Len(Split(calls[i].arg)) >= 1
               /\ DecodeMetar(calls[i].arg) # UnableToDecode
    /\ response # NoResult =>
           /\ response.decoded # UnableToDecode
           /\ response.template = "result.html" => response.decoded.kind = "record"

\* C14 witness: the body "KHIO 10SM CLR\n" was fetched, decode_metar was given
\* "KHIO 10SM CLR" and result.html received its record.
C14_Witness ==
    /\ rpc = "done"
    /\ http_result = HttpBody(<<"K", "H", "I", "O", " ", "1", "0", "S", "M", " ",
                                "C", "L", "R", "\n">>)
    /\ calls[Len(calls)] = [fn |-> "decode_metar",
                            arg |-> <<"K", "H", "I", "O", " ", "1", "0", "S", "M", " ",
                                      "C", "L", "R">>]
    /\ response.template = "result.html"
    /\ response.decoded.kind = "record"
    /\ response.decoded.details.station = <<"K", "H", "I", "O">>
    /\ response.decoded.details.clouds = "clear skies"

=============================================================================
